---- MODULE Spec2Model ----
(***************************************************************************)
(* Project Lique-Flow: the Unified Ledger (src/src/ledger/unified_ledger.py),*)
(* the Circuit Breaker (src/src/security/guardrails.py), the Liquidity     *)
(* Agent (src/src/agents/liquidity_agent.py) and the batch driver          *)
(* (src/app.py, run_simulation_scenario).                                  *)
(*                                                                         *)
(* Amounts are whole dollars (Python floats holding small integers, which  *)
(* float arithmetic treats exactly).  Fractions of the code (0.8, 0.4,     *)
(* 0.5, 0.20, the risk bands) are compared by cross-multiplication.        *)
(* A token id is the position of the deposit in the insertion-ordered      *)
(* dict tokenized_deposits; created_at is non-decreasing in that order, so *)
(* the stable sort of burn_deposit keeps insertion order.                  *)
(***************************************************************************)
EXTENDS Integers, Sequences, FiniteSets, TLC

VARIABLES
    initial_balance,     \* the configured initial balance (app.py: sidebar / session default)
    ledger,              \* UnifiedLedger: tokenized_deposits, ledger_state, settlements, instruction_log
    calls,               \* execute_atomic_settlement calls in progress (interleaved execution only)
    agent,               \* LiquidityAgent: initial_balance, circuit_breaker
    current_state,       \* st.session_state.current_state, the LiquiditySnapshot
    use_unified_ledger,  \* the mode run_simulation_scenario is called with
    decision_history,    \* st.session_state.decision_history
    pc,                  \* the node of the graph that runs next, "END", or "idle" between messages
    state                \* the AgentState threaded through the graph

ledgerVars == <<initial_balance, ledger, calls>>
engineVars == <<agent, current_state, use_unified_ledger, decision_history, pc, state>>
vars == <<initial_balance, ledger, calls, agent, current_state, use_unified_ledger,
          decision_history, pc, state>>

----------------------------------------------------------------------------
(* Bounds of the model *)

MaxInitial == 5     \* initial_balance ranges over 1..MaxInitial
MaxAmount == 3      \* amounts of ledger calls range over 1..MaxAmount
MaxOps == 2         \* ledger calls per behaviour
MaxVariance == 3    \* max_allowable_variance ranges over 1..MaxVariance
MaxMsgs == 3        \* messages of a batch

Amounts == 1..MaxAmount

bank_id == "BANK-001"
Accounts == {bank_id, "BENEFICIARY_BANK"}

None == "None"                 \* None where a string is expected
Nothing == << >>               \* None where a number is expected
Some(v) == << v >>
NoResult == [decision |-> None] \* None where a DecisionResult is expected

----------------------------------------------------------------------------
(* Unified Ledger *)

RECURSIVE SumAmounts(_)
SumAmounts(s) ==
    IF s = <<>> THEN 0 ELSE Head(s).amount + SumAmounts(Tail(s))

\* TokenizedDeposit(owner, amount): status defaults to ACTIVE
TokenizedDeposit(owner, amount) ==
    [owner |-> owner, amount |-> amount, status |-> "ACTIVE"]

\* UnifiedLedger.__init__ with _mint_initial_deposits: the cache entry of the
\* bank and one ACTIVE deposit of the initial balance; nothing is logged
UnifiedLedger(balance) ==
    [ tokenized_deposits |-> << TokenizedDeposit(bank_id, balance) >>,
      ledger_state       |-> [a \in {bank_id} |-> balance],
      settlements        |-> << >>,
      instruction_log    |-> << >> ]

IsActiveOf(token, account) == token.owner = account /\ token.status = "ACTIVE"

get_total_tokenized_balance(L, account) ==
    LET Mine(token) == IsActiveOf(token, account)
    IN  SumAmounts(SelectSeq(L.tokenized_deposits, Mine))

LogEntry(type, owner, to, amount, tokens) ==
    [type |-> type, owner |-> owner, to |-> to, amount |-> amount, tokens |-> tokens]

\* ledger_state[owner] += amount, creating the entry at 0.0 when absent
CreditState(ls, owner, amount) ==
    [a \in DOMAIN ls \cup {owner} |->
        IF a = owner
        THEN (IF owner \in DOMAIN ls THEN ls[owner] ELSE 0) + amount
        ELSE ls[a]]

\* if owner in self.ledger_state: self.ledger_state[owner] -= amount
DebitState(ls, owner, amount) ==
    IF owner \in DOMAIN ls
    THEN [ls EXCEPT ![owner] = @ - amount]
    ELSE ls

mint_deposit(L, owner, amount) ==
    [L EXCEPT
        !.tokenized_deposits = Append(@, TokenizedDeposit(owner, amount)),
        !.ledger_state = CreditState(@, owner, amount),
        !.instruction_log =
            Append(@, LogEntry("MINT", owner, None, amount,
                               << Len(L.tokenized_deposits) + 1 >>))]

\* available_tokens: the ids of the owner's ACTIVE deposits, oldest first
RECURSIVE AvailableFrom(_, _, _)
AvailableFrom(deps, owner, i) ==
    IF i > Len(deps) THEN << >>
    ELSE IF IsActiveOf(deps[i], owner)
         THEN << i >> \o AvailableFrom(deps, owner, i + 1)
         ELSE AvailableFrom(deps, owner, i + 1)

\* the owner's ACTIVE deposits taken newest first
RECURSIVE AvailableFrom_NewestFirst(_, _, _)
AvailableFrom_NewestFirst(deps, owner, i) ==
    IF i > Len(deps) THEN << >>
    ELSE IF IsActiveOf(deps[i], owner)
         THEN AvailableFrom_NewestFirst(deps, owner, i + 1) \o << i >>
         ELSE AvailableFrom_NewestFirst(deps, owner, i + 1)

available_tokens_NewestFirst(deps, owner) == AvailableFrom_NewestFirst(deps, owner, 1)

available_tokens(deps, owner) == AvailableFrom(deps, owner, 1)

\* the remainder deposit of a partial burn handed to the beneficiary bank
PartialBurn_RemainderChangesOwner(st, tid) ==
    LET token == st.deps[tid]
        remaining_token_amount == token.amount - st.remaining
    IN  [ deps      |-> Append([st.deps EXCEPT ![tid].amount = remaining_token_amount],
                               TokenizedDeposit("BENEFICIARY_BANK", remaining_token_amount)),
          remaining |-> 0,
          burned    |-> Append(st.burned, tid) ]

\* One iteration of the loop of burn_deposit on the token with id tid, for a
\* token that covers more than what remains: the split branch
PartialBurn(st, tid) ==
    LET token == st.deps[tid]
        remaining_token_amount == token.amount - st.remaining
    IN  [ deps      |-> Append([st.deps EXCEPT ![tid].amount = remaining_token_amount],
                               TokenizedDeposit(token.owner, remaining_token_amount)),
          remaining |-> 0,
          burned    |-> Append(st.burned, tid) ]

\* ... and for a token that the remaining amount covers: burn it entirely
FullBurn(st, tid) ==
    [ deps      |-> [st.deps EXCEPT ![tid].status = "BURNED"],
      remaining |-> st.remaining - st.deps[tid].amount,
      burned    |-> Append(st.burned, tid) ]

RECURSIVE BurnLoop(_, _)
BurnLoop(st, ids) ==
    IF ids = << >> \/ st.remaining <= 0 THEN st
    ELSE IF st.deps[Head(ids)].amount <= st.remaining
         THEN BurnLoop(FullBurn(st, Head(ids)), Tail(ids))
         ELSE BurnLoop(PartialBurn(st, Head(ids)), Tail(ids))

burn_deposit(L, owner, amount) ==
    LET done == BurnLoop([deps |-> L.tokenized_deposits, remaining |-> amount,
                          burned |-> << >>],
                         available_tokens(L.tokenized_deposits, owner))
    IN  [L EXCEPT
            !.tokenized_deposits = done.deps,
            !.ledger_state = DebitState(@, owner, amount),
            !.instruction_log =
                Append(@, LogEntry("BURN", owner, None, amount, done.burned))]

\* AtomicSettlement(...): status defaults to PENDING, failure_reason to None
AtomicSettlement(from_account, to_account, amount, message_id) ==
    [ from_account |-> from_account, to_account |-> to_account, amount |-> amount,
      message_id |-> message_id, status |-> "PENDING", failure_reason |-> None ]

\* the comparison with its operands swapped
InsufficientBalance_Swapped(available_balance, amount) == amount < available_balance

\* if available_balance < amount: the settlement fails
InsufficientBalance(available_balance, amount) == available_balance < amount

\* the early return recording the settlement without setting its status
FailSettlement_StaysPending(L, settlement) ==
    [L EXCEPT !.settlements =
        Append(@, [settlement EXCEPT !.failure_reason = "Insufficient balance"])]

\* The early return of execute_atomic_settlement
FailSettlement(L, settlement) ==
    [L EXCEPT !.settlements =
        Append(@, [settlement EXCEPT !.status = "FAILED",
                                     !.failure_reason = "Insufficient balance"])]

\* The try block of execute_atomic_settlement, after burn_deposit returned:
\* mint to the receiver, mark EXECUTED, log, record
MintAndRecord(L, settlement, burned_tokens) ==
    LET M == mint_deposit(L, settlement.to_account, settlement.amount)
    IN  [M EXCEPT
            !.instruction_log =
                Append(@, LogEntry("ATOMIC_SETTLEMENT", settlement.from_account,
                                   settlement.to_account, settlement.amount,
                                   burned_tokens)),
            !.settlements = Append(@, [settlement EXCEPT !.status = "EXECUTED"])]

LastBurned(L) == L.instruction_log[Len(L.instruction_log)].tokens

execute_atomic_settlement(L, from_account, to_account, amount, message_id) ==
    LET settlement == AtomicSettlement(from_account, to_account, amount, message_id)
        available_balance == get_total_tokenized_balance(L, from_account)
    IN  IF InsufficientBalance(available_balance, amount)
        THEN FailSettlement(L, settlement)
        ELSE LET B == burn_deposit(L, from_account, amount)
             IN  MintAndRecord(B, settlement, LastBurned(B))

----------------------------------------------------------------------------
(* Circuit Breaker *)

MaxLiquidityPercentageTenths == 5   \* max_liquidity_percentage, default 0.5
OverrideVarianceTenths == 8         \* max_allowable_variance * 0.8
OverridePoolTenths == 4             \* percentage > 0.4

PriorityTier == {"URGENT", "HIGH", "NORMAL", "LOW"}

\* CircuitBreaker.__init__ followed by set_total_liquidity_pool
CircuitBreaker(variance, total_liquidity) ==
    [ max_allowable_variance   |-> variance,
      max_liquidity_percentage |-> MaxLiquidityPercentageTenths,
      total_liquidity_pool     |-> total_liquidity ]

Allowed == [is_allowed |-> TRUE, reason |-> None]
Blocked(reason) == [is_allowed |-> FALSE, reason |-> reason]

\* the absolute limit with URGENT and sovereign payments exempted
ExceedsVariance_UrgentExempt(cb, message) ==
    message.amount > cb.max_allowable_variance
      /\ ~(message.priority = "URGENT" \/ message.is_sovereign)

\* message.amount > self.max_allowable_variance
ExceedsVariance(cb, message) == message.amount > cb.max_allowable_variance

\* amount / total_liquidity_pool > tenths / 10
PercentageAbove(cb, message, tenths) ==
    10 * message.amount > tenths * cb.total_liquidity_pool

\* the deficit exemption for URGENT payments only
MayGoIntoDeficit_UrgentOnly(message) == message.priority = "URGENT"

MayGoIntoDeficit(message) == message.priority = "URGENT" \/ message.is_sovereign

\* the check without its negative-balance clause
check_transaction_NoBalanceCheck(cb, message, balance) ==
    IF ExceedsVariance(cb, message)
    THEN Blocked("exceeds maximum allowable variance")
    ELSE IF cb.total_liquidity_pool > 0
            /\ PercentageAbove(cb, message, cb.max_liquidity_percentage)
    THEN Blocked("exceeds percentage of total liquidity")
    ELSE Allowed

check_transaction(cb, message, balance) ==
    IF ExceedsVariance(cb, message)
    THEN Blocked("exceeds maximum allowable variance")
    ELSE IF cb.total_liquidity_pool > 0
            /\ PercentageAbove(cb, message, cb.max_liquidity_percentage)
    THEN Blocked("exceeds percentage of total liquidity")
    ELSE IF message.amount > balance
    THEN (IF MayGoIntoDeficit(message) THEN Allowed ELSE Blocked("Insufficient balance"))
    ELSE Allowed

\* message.amount > self.max_allowable_variance * 0.8
AboveOverrideVariance(cb, message) ==
    10 * message.amount > OverrideVarianceTenths * cb.max_allowable_variance

\* the override check without its 80%-of-limit clause
should_trigger_human_override_PoolOnly(cb, message, balance) ==
    cb.total_liquidity_pool > 0 /\ PercentageAbove(cb, message, OverridePoolTenths)

should_trigger_human_override(cb, message, balance) ==
    IF AboveOverrideVariance(cb, message) THEN TRUE
    ELSE IF cb.total_liquidity_pool > 0 /\ PercentageAbove(cb, message, OverridePoolTenths)
    THEN TRUE
    ELSE FALSE

----------------------------------------------------------------------------
(* Liquidity Agent *)

DailyVolumeFactor == 2          \* daily_volume_estimate = initial_balance * 2
BufferTenths == 2               \* precautionary_buffer = daily_volume_estimate * 0.20
CreditRatePerTenThousand == 1   \* intraday_credit_rate = 0.0001
DelayHours == 2                 \* delay_hours = 2.0

\* LiquidityAgent.__init__: the pool of the circuit breaker is the initial balance
LiquidityAgent(balance, variance) ==
    [ initial_balance |-> balance,
      circuit_breaker |-> CircuitBreaker(variance, balance) ]

ISO20022Message(msg_id, amount, priority, is_sovereign) ==
    [msg_id |-> msg_id, amount |-> amount, priority |-> priority,
     is_sovereign |-> is_sovereign]

\* DecisionResult(...): liquidity_after and opportunity_cost_saved default to None;
\* risk scores are in tenths, opportunity cost in 1/10000 dollar
DecisionResult(message_id, decision, reasoning_steps, liquidity_before, opportunity_cost_saved, risk_score) ==
    [ message_id |-> message_id, decision |-> decision,
      reasoning_steps |-> reasoning_steps, liquidity_before |-> liquidity_before,
      liquidity_after |-> Nothing, opportunity_cost_saved |-> opportunity_cost_saved,
      risk_score |-> risk_score ]

\* the threshold table with the scores of the two lower bands exchanged
risk_band_Exchanged(balance, total_outflow) ==
    IF balance = 0 THEN 10
    ELSE IF balance >= 2 * (total_outflow + 1) THEN 0
    ELSE IF balance >= total_outflow + 1 THEN 2
    ELSE IF 2 * balance >= total_outflow + 1 THEN 7
    ELSE IF 5 * balance >= total_outflow + 1 THEN 5
    ELSE 10

\* the thresholds compared with > instead of >=
risk_band_Strict(balance, total_outflow) ==
    IF balance = 0 THEN 10
    ELSE IF balance > 2 * (total_outflow + 1) THEN 0
    ELSE IF balance > total_outflow + 1 THEN 2
    ELSE IF 2 * balance > total_outflow + 1 THEN 5
    ELSE IF 5 * balance > total_outflow + 1 THEN 7
    ELSE 10

\* _calculate_risk_score, in tenths: buffer_ratio = balance / (total_outflow + 1)
\* compared with 2.0, 1.0, 0.5 and 0.2
risk_band(balance, total_outflow) ==
    IF balance = 0 THEN 10
    ELSE IF balance >= 2 * (total_outflow + 1) THEN 0
    ELSE IF balance >= total_outflow + 1 THEN 2
    ELSE IF 2 * balance >= total_outflow + 1 THEN 5
    ELSE IF 5 * balance >= total_outflow + 1 THEN 7
    ELSE 10

calculate_risk_score(balance, message, pending_queue) ==
    risk_band(balance, message.amount + SumAmounts(pending_queue))

\* the keys taken in an order that differs from one call to the next instead of
\* sorted: the earliest projection on the first call, the latest afterwards
get_next_inflow_Unsorted(incoming_projections) ==
    IF DOMAIN incoming_projections = {} THEN 0
    ELSE IF decision_history = << >>
    THEN incoming_projections[CHOOSE t \in DOMAIN incoming_projections :
                                 \A u \in DOMAIN incoming_projections : t <= u]
    ELSE incoming_projections[CHOOSE t \in DOMAIN incoming_projections :
                                 \A u \in DOMAIN incoming_projections : t >= u]

\* the amount of the latest projection taken instead of the earliest
get_next_inflow_Latest(incoming_projections) ==
    IF DOMAIN incoming_projections = {} THEN 0
    ELSE incoming_projections[CHOOSE t \in DOMAIN incoming_projections :
                                 \A u \in DOMAIN incoming_projections : t >= u]

\* _get_next_inflow: the amount of the earliest projection, 0.0 when there is none
get_next_inflow(incoming_projections) ==
    IF DOMAIN incoming_projections = {} THEN 0
    ELSE incoming_projections[CHOOSE t \in DOMAIN incoming_projections :
                                 \A u \in DOMAIN incoming_projections : t <= u]

\* amount * intraday_credit_rate * delay_hours
delay_cost(message) == message.amount * CreditRatePerTenThousand * DelayHours

\* current_balance < precautionary_buffer
BelowPrecautionaryBuffer(ag, balance) ==
    10 * balance < BufferTenths * DailyVolumeFactor * ag.initial_balance

_check_guardrails_node(ag, st) ==
    LET message == st.new_message
        check == check_transaction(ag.circuit_breaker, message, st.current_balance)
    IN  IF ~check.is_allowed
        THEN [st EXCEPT
                !.decision_log = Append(@, <<"GUARDRAIL", check.reason>>),
                !.decision_result =
                    DecisionResult(message.msg_id, "REJECT",
                                   << <<"Circuit breaker blocked transaction", check.reason>> >>,
                                   st.current_balance, Nothing, 10),
                !.results_created = @ + 1]
        ELSE st

\* Steps 1 to 5 of _cash_manager_node: the decision and the reasoning steps
\* Step 1: priority check
Step1(message) ==
    IF MayGoIntoDeficit(message)
    THEN [decision |-> "SETTLE", steps |-> << "Priority check: immediate settlement" >>]
    ELSE [decision |-> "QUEUE", steps |-> << "Priority check: standard processing" >>]

\* conservative mode queueing every payment, URGENT and sovereign ones too
Step2_QueuesAll(ag, message, balance, d) ==
    IF BelowPrecautionaryBuffer(ag, balance)
    THEN [decision |-> "QUEUE",
          steps |-> d.steps \o << "Liquidity threshold: conservative mode",
                                  "Non-urgent payment queued" >>]
    ELSE d

\* Step 2: liquidity threshold check
Step2(ag, message, balance, d) ==
    IF BelowPrecautionaryBuffer(ag, balance)
    THEN IF message.priority # "URGENT" /\ ~message.is_sovereign
         THEN [decision |-> "QUEUE",
               steps |-> d.steps \o << "Liquidity threshold: conservative mode",
                                       "Non-urgent payment queued" >>]
         ELSE [d EXCEPT !.steps = Append(@, "Liquidity threshold: conservative mode")]
    ELSE d

\* Step 3 left out: a queued payment stays queued
Step3_Skipped(message, balance, incoming_projections, d) == d

\* Step 3: opportunity cost calculation
Step3(message, balance, incoming_projections, d) ==
    IF d.decision = "QUEUE" /\ message.amount <= balance
    THEN LET next_inflow == get_next_inflow(incoming_projections)
         IN  IF next_inflow # 0 /\ next_inflow > message.amount
             THEN [decision |-> "QUEUE",
                   steps |-> Append(d.steps, "Opportunity cost: delaying saves")]
             ELSE [decision |-> "SETTLE",
                   steps |-> Append(d.steps, "Opportunity cost: no significant savings")]
    ELSE d

\* the feasibility step queueing every settlement above the balance
Step4_QueuesDeficit(message, balance, d) ==
    IF d.decision = "SETTLE" /\ message.amount > balance
    THEN [decision |-> "QUEUE",
          steps |-> Append(d.steps, "Insufficient balance for immediate settlement")]
    ELSE d

\* Step 4: check if settlement is possible
Step4(message, balance, d) ==
    IF d.decision = "SETTLE" /\ message.amount > balance
    THEN IF MayGoIntoDeficit(message)
         THEN [decision |-> "SETTLE",
               steps |-> d.steps \o << "Insufficient balance for immediate settlement",
                                       "Triggering repo request" >>]
         ELSE [decision |-> "QUEUE",
               steps |-> Append(d.steps, "Insufficient balance for immediate settlement")]
    ELSE d

\* the override replacing a SETTLE decision only
Step5_SettleOnly(ag, message, balance, d) ==
    IF should_trigger_human_override(ag.circuit_breaker, message, balance)
         /\ d.decision = "SETTLE"
    THEN [decision |-> "REQUIRE_HUMAN_OVERRIDE",
          steps |-> Append(d.steps, "Human override required")]
    ELSE d

\* Step 5: human override check
Step5(ag, message, balance, d) ==
    IF should_trigger_human_override(ag.circuit_breaker, message, balance)
    THEN [decision |-> "REQUIRE_HUMAN_OVERRIDE",
          steps |-> Append(d.steps, "Human override required")]
    ELSE d

decision_matrix(ag, st) ==
    LET message == st.new_message
        balance == st.current_balance
    IN  Step5(ag, message, balance,
          Step4(message, balance,
            Step3(message, balance, st.incoming_projections,
              Step2(ag, message, balance, Step1(message)))))

\* the early return of the cash manager left out
AlreadyRejected_Never(st) == FALSE

\* if already rejected by guardrails, skip
AlreadyRejected(st) ==
    st.decision_result # NoResult /\ st.decision_result.decision = "REJECT"

_cash_manager_node(ag, st) ==
    IF AlreadyRejected(st) THEN st
    ELSE LET message == st.new_message
             d == decision_matrix(ag, st)
             risk_score == calculate_risk_score(st.current_balance, message,
                                                st.pending_queue)
             opportunity_cost_saved ==
                 IF d.decision = "QUEUE" THEN Some(delay_cost(message)) ELSE Nothing
         IN  [st EXCEPT
                !.decision_result =
                    DecisionResult(message.msg_id, d.decision, d.steps,
                                   st.current_balance, opportunity_cost_saved, risk_score),
                !.decision_log = @ \o d.steps,
                !.results_created = @ + 1]

_should_execute(st) ==
    IF st.decision_result = NoResult THEN "QUEUE" ELSE st.decision_result.decision

\* the settlement without the repo: the amount is subtracted from the balance as it is
_execute_settlement_node_NoRepo(st) ==
    LET message == st.new_message
        new_balance == st.current_balance - message.amount
    IN  [st EXCEPT
            !.current_balance = new_balance,
            !.total_settled_today = @ + message.amount,
            !.decision_result =
                IF @ # NoResult THEN [@ EXCEPT !.liquidity_after = Some(new_balance)] ELSE @,
            !.decision_log = Append(@, <<"SETTLEMENT EXECUTED", new_balance>>)]

_execute_settlement_node(st) ==
    LET message == st.new_message
        repo_needed == message.amount > st.current_balance
        repo_amount == message.amount - st.current_balance
        balance_after_repo == IF repo_needed THEN message.amount ELSE st.current_balance
        new_balance == balance_after_repo - message.amount
    IN  [st EXCEPT
            !.current_balance = new_balance,
            !.total_settled_today = @ + message.amount,
            !.decision_result =
                IF @ # NoResult THEN [@ EXCEPT !.liquidity_after = Some(new_balance)] ELSE @,
            !.decision_log =
                (IF repo_needed THEN Append(@, <<"LIQUIDITY REPO", repo_amount>>) ELSE @)
                \o << <<"SETTLEMENT EXECUTED", new_balance>> >>]

_update_state_node(st) ==
    LET message == st.new_message
        decision == IF st.decision_result # NoResult THEN st.decision_result.decision
                    ELSE "QUEUE"
        queued == IF decision = "QUEUE"
                  THEN [st EXCEPT
                          !.pending_queue = Append(@, message),
                          !.total_delayed_today = @ + message.amount,
                          !.decision_log = Append(@, <<"PAYMENT QUEUED", message.msg_id>>)]
                  ELSE st
    IN  [queued EXCEPT
            !.risk_score = calculate_risk_score(queued.current_balance, message,
                                                queued.pending_queue)]

\* the AgentState process_message builds from the snapshot
initial_state(message, snapshot) ==
    [ current_balance      |-> snapshot.current_balance,
      pending_queue        |-> snapshot.pending_queue,
      incoming_projections |-> snapshot.incoming_projections,
      risk_score           |-> snapshot.risk_score,
      decision_log         |-> << >>,
      new_message          |-> message,
      decision_result      |-> NoResult,
      total_settled_today  |-> snapshot.total_settled_today,
      total_delayed_today  |-> snapshot.total_delayed_today,
      results_created      |-> 0 ]

\* the conditional edges without an entry for "REJECT": a rejected message
\* never leaves cash_manager
next_node_NoRejectEdge(node, st) ==
    CASE node = "check_guardrails"   -> "cash_manager"
      [] node = "cash_manager"       ->
            (IF _should_execute(st) = "SETTLE" THEN "execute_settlement"
             ELSE IF _should_execute(st) = "REJECT" THEN "cash_manager"
             ELSE "update_state")
      [] node = "execute_settlement" -> "update_state"
      [] node = "update_state"       -> "END"

\* the edge from execute_settlement leading to END instead of update_state
next_node_SettlementEndsRun(node, st) ==
    CASE node = "check_guardrails"   -> "cash_manager"
      [] node = "cash_manager"       ->
            (IF _should_execute(st) = "SETTLE" THEN "execute_settlement" ELSE "update_state")
      [] node = "execute_settlement" -> "END"
      [] node = "update_state"       -> "END"

\* _build_graph: the edge taken after each node.  The graph is the compiled
\* StateGraph: graph.invoke runs the nodes in edge order on one state dict.
\* (The DummyGraph stand-in used when the langgraph import fails runs no node.)
next_node(node, st) ==
    CASE node = "check_guardrails"   -> "cash_manager"
      [] node = "cash_manager"       ->
            (IF _should_execute(st) = "SETTLE" THEN "execute_settlement" ELSE "update_state")
      [] node = "execute_settlement" -> "update_state"
      [] node = "update_state"       -> "END"

\* what the node does to the state
run_node(node, ag, st) ==
    CASE node = "check_guardrails"   -> _check_guardrails_node(ag, st)
      [] node = "cash_manager"       -> _cash_manager_node(ag, st)
      [] node = "execute_settlement" -> _execute_settlement_node(st)
      [] node = "update_state"       -> _update_state_node(st)

Nodes == {"check_guardrails", "cash_manager", "execute_settlement", "update_state"}

LiquiditySnapshot(balance) ==
    [ current_balance      |-> balance,
      pending_queue        |-> << >>,
      incoming_projections |-> << >>,
      risk_score           |-> 0,
      total_settled_today  |-> 0,
      total_delayed_today  |-> 0 ]

----------------------------------------------------------------------------
(* Construction: initialize_session_state / Reset System build the agent,  *)
(* the ledger and the snapshot from the same initial balance                *)

\* no message is being processed
NoState == [decision_result |-> NoResult]

Constructed(variance) ==
    /\ ledger = UnifiedLedger(initial_balance)
    /\ agent = LiquidityAgent(initial_balance, variance)
    /\ current_state = LiquiditySnapshot(initial_balance)
    /\ decision_history = << >>
    /\ calls = << >>
    /\ state = NoState

----------------------------------------------------------------------------
(* The ledger driven through its public methods, one call at a time *)

RECURSIVE CountStatus(_, _)
CountStatus(settlements, status) ==
    IF settlements = << >> THEN 0
    ELSE (IF Head(settlements).status = status THEN 1 ELSE 0)
         + CountStatus(Tail(settlements), status)

IsActive(token) == token.status = "ACTIVE"

get_ledger_snapshot(L) ==
    [ ledger_state           |-> L.ledger_state,
      total_tokens           |-> Len(SelectSeq(L.tokenized_deposits, IsActive)),
      total_settlements      |-> Len(L.settlements),
      successful_settlements |-> CountStatus(L.settlements, "EXECUTED"),
      failed_settlements     |-> CountStatus(L.settlements, "FAILED"),
      instruction_count      |-> Len(L.instruction_log) ]

\* calls made so far: an EXECUTED settlement logs a BURN, a MINT and itself
OpsDone(L) ==
    Len(L.instruction_log) + Len(L.settlements)
      - 3 * CountStatus(L.settlements, "EXECUTED")

InitLedger ==
    /\ initial_balance \in 1..MaxInitial
    /\ Constructed(MaxVariance)
    /\ use_unified_ledger = TRUE
    /\ pc = "idle"

MintDeposit(owner, amount) ==
    /\ OpsDone(ledger) < MaxOps
    /\ ledger' = mint_deposit(ledger, owner, amount)
    /\ UNCHANGED <<initial_balance, calls, engineVars>>

BurnDeposit(owner, amount) ==
    /\ OpsDone(ledger) < MaxOps
    /\ ledger' = burn_deposit(ledger, owner, amount)
    /\ UNCHANGED <<initial_balance, calls, engineVars>>

ExecuteAtomicSettlement(from_account, to_account, amount) ==
    /\ OpsDone(ledger) < MaxOps
    /\ ledger' = execute_atomic_settlement(ledger, from_account, to_account, amount, Nothing)
    /\ UNCHANGED <<initial_balance, calls, engineVars>>

NextLedger ==
    \E owner \in Accounts, amount \in Amounts :
        \/ MintDeposit(owner, amount)
        \/ BurnDeposit(owner, amount)
        \/ \E to_account \in Accounts : ExecuteAtomicSettlement(owner, to_account, amount)

SpecLedger == InitLedger /\ [][NextLedger]_vars

----------------------------------------------------------------------------
(* Two execute_atomic_settlement calls debiting the bank account, executed  *)
(* with their steps interleaved: balance check (lines 217-224), burn (228), *)
(* mint and record (229-252).  The ledger holds no lock.                    *)

NumCallers == 2
Callers == 1..NumCallers

InitConc ==
    /\ initial_balance \in 1..MaxInitial
    /\ ledger = UnifiedLedger(initial_balance)
    /\ agent = LiquidityAgent(initial_balance, MaxVariance)
    /\ current_state = LiquiditySnapshot(initial_balance)
    /\ decision_history = << >>
    /\ state = NoState
    /\ use_unified_ledger = TRUE
    /\ pc = "idle"
    /\ calls \in [Callers -> [pc : {"check"}, burned_tokens : {<< >>},
                              settlement : {AtomicSettlement(bank_id, to_account, amount, Nothing) :
                                              to_account \in Accounts, amount \in Amounts}]]

\* lines 217-224: read the balance; fail and return when it is insufficient
ConcCheck(c) ==
    /\ calls[c].pc = "check"
    /\ LET s == calls[c].settlement
       IN  IF InsufficientBalance(get_total_tokenized_balance(ledger, s.from_account), s.amount)
           THEN /\ ledger' = FailSettlement(ledger, s)
                /\ calls' = [calls EXCEPT ![c].pc = "done"]
           ELSE /\ calls' = [calls EXCEPT ![c].pc = "burn"]
                /\ UNCHANGED ledger
    /\ UNCHANGED <<initial_balance, engineVars>>

\* line 228: burned_tokens = self.burn_deposit(from_account, amount)
ConcBurn(c) ==
    /\ calls[c].pc = "burn"
    /\ ledger' = burn_deposit(ledger, calls[c].settlement.from_account,
                              calls[c].settlement.amount)
    /\ calls' = [calls EXCEPT ![c].pc = "mint", ![c].burned_tokens = LastBurned(ledger')]
    /\ UNCHANGED <<initial_balance, engineVars>>

\* lines 229-252: mint to the receiver, mark EXECUTED, log, record
ConcMint(c) ==
    /\ calls[c].pc = "mint"
    /\ ledger' = MintAndRecord(ledger, calls[c].settlement, calls[c].burned_tokens)
    /\ calls' = [calls EXCEPT ![c].pc = "done"]
    /\ UNCHANGED <<initial_balance, engineVars>>

NextConc == \E c \in Callers : ConcCheck(c) \/ ConcBurn(c) \/ ConcMint(c)

SpecConc == InitConc /\ [][NextConc]_vars

----------------------------------------------------------------------------
(* The graph of the agent: one action per node *)

InputPriorities == {"URGENT", "NORMAL"}   \* HIGH and LOW take the branches of NORMAL

Messages(msg_id) ==
    { ISO20022Message(msg_id, amount, priority, is_sovereign) :
        amount \in Amounts, priority \in InputPriorities, is_sovereign \in BOOLEAN }

TimeBuckets == {15, 30}          \* minutes ahead of the projection keys
InflowAmounts == {1, MaxAmount}

\* incoming_projections: time bucket -> projected inflow
Projections(buckets) == UNION { [D -> InflowAmounts] : D \in buckets }

\* the snapshot of the caller with the queue of the run written through to it:
\* the nodes appending to the list of the snapshot itself
snapshot_after_node_SharedQueue(snapshot, st) ==
    [snapshot EXCEPT !.pending_queue = st.pending_queue]

\* process_message hands the nodes copies of the queue and of the projections
\* and the values of the scalar fields: what a node writes to the AgentState
\* does not reach the snapshot of the caller
snapshot_after_node(snapshot, st) == snapshot

CheckGuardrails ==
    /\ pc = "check_guardrails"
    /\ state' = _check_guardrails_node(agent, state)
    /\ pc' = next_node(pc, state')
    /\ current_state' = snapshot_after_node(current_state, state')
    /\ UNCHANGED <<ledgerVars, agent, use_unified_ledger, decision_history>>

CashManager ==
    /\ pc = "cash_manager"
    /\ state' = _cash_manager_node(agent, state)
    /\ pc' = next_node(pc, state')
    /\ current_state' = snapshot_after_node(current_state, state')
    /\ UNCHANGED <<ledgerVars, agent, use_unified_ledger, decision_history>>

ExecuteSettlement ==
    /\ pc = "execute_settlement"
    /\ state' = _execute_settlement_node(state)
    /\ pc' = next_node(pc, state')
    /\ current_state' = snapshot_after_node(current_state, state')
    /\ UNCHANGED <<ledgerVars, agent, use_unified_ledger, decision_history>>

UpdateState ==
    /\ pc = "update_state"
    /\ state' = _update_state_node(state)
    /\ pc' = next_node(pc, state')
    /\ current_state' = snapshot_after_node(current_state, state')
    /\ UNCHANGED <<ledgerVars, agent, use_unified_ledger, decision_history>>

GraphStep == CheckGuardrails \/ CashManager \/ ExecuteSettlement \/ UpdateState

----------------------------------------------------------------------------
(* process_message called on an arbitrary snapshot *)

Snapshots ==
    { [ current_balance      |-> balance,
        pending_queue        |-> queue,
        incoming_projections |-> projections,
        risk_score           |-> 0,
        total_settled_today  |-> 0,
        total_delayed_today  |-> 0 ] :
        balance \in 0..MaxInitial,
        queue \in {<< >>} \cup { << ISO20022Message(0, amount, "NORMAL", FALSE) >> :
                                     amount \in Amounts },
        projections \in Projections(SUBSET TimeBuckets) }

InitProcess ==
    /\ initial_balance \in 1..MaxInitial
    /\ ledger = UnifiedLedger(initial_balance)
    /\ \E variance \in 1..MaxVariance : agent = LiquidityAgent(initial_balance, variance)
    /\ current_state \in Snapshots
    /\ decision_history = << >>
    /\ calls = << >>
    /\ use_unified_ledger = FALSE
    /\ state \in { initial_state(message, current_state) : message \in Messages(1) }
    /\ pc = "check_guardrails"

NextProcess == GraphStep

\* graph.invoke runs the nodes one after the other until END
SpecProcess == InitProcess /\ [][NextProcess]_vars /\ WF_vars(NextProcess)

----------------------------------------------------------------------------
(* run_simulation_scenario: the batch driver *)

Init ==
    /\ initial_balance \in 1..MaxInitial
    /\ \E variance \in 1..MaxVariance : Constructed(variance)
    /\ use_unified_ledger \in BOOLEAN
    /\ pc = "idle"

\* lines 323-329: fill the projections when empty, then call process_message
StartMessage(message, generated) ==
    /\ pc = "idle"
    /\ Len(decision_history) < MaxMsgs
    /\ current_state' =
          IF DOMAIN current_state.incoming_projections = {}
          THEN [current_state EXCEPT !.incoming_projections = generated]
          ELSE current_state
    /\ state' = initial_state(message, current_state')
    /\ pc' = "check_guardrails"
    /\ UNCHANGED <<ledgerVars, agent, use_unified_ledger, decision_history>>

\* lines 346-348 / 357-359
DebitSnapshot(snapshot, message) ==
    [snapshot EXCEPT !.current_balance = @ - message.amount,
                     !.total_settled_today = @ + message.amount]

\* the failure branch with the debit of the success branch left in
RouteToQueue_Debited(snapshot, message) ==
    [snapshot EXCEPT !.pending_queue = Append(@, message),
                     !.current_balance = @ - message.amount]

\* lines 349-352: the settlement failed on the ledger; the message goes to the queue
RouteToQueue(snapshot, message) ==
    [snapshot EXCEPT !.pending_queue = Append(@, message)]

\* the queued message put at the head of the queue
QueueInstruction_AtFront(snapshot, message) ==
    [snapshot EXCEPT !.pending_queue = <<message>> \o @,
                     !.total_delayed_today = @ + message.amount]

\* lines 360-362: standard mode, decision QUEUE
QueueInstruction(snapshot, message) ==
    [snapshot EXCEPT !.pending_queue = Append(@, message),
                     !.total_delayed_today = @ + message.amount]

\* lines 332-380: what the driver does with the result of process_message
Complete ==
    /\ pc = "END"
    /\ pc' = "idle"
    /\ LET message == state.new_message
           decision_result == state.decision_result
       IN  IF decision_result = NoResult
           THEN UNCHANGED <<ledger, current_state, decision_history>>
           ELSE IF use_unified_ledger /\ decision_result.decision = "SETTLE"
           THEN LET L == execute_atomic_settlement(ledger, bank_id, "BENEFICIARY_BANK",
                                                   message.amount, Some(message.msg_id))
                    settlement == L.settlements[Len(L.settlements)]
                IN  /\ ledger' = L
                    /\ IF settlement.status = "EXECUTED"
                       THEN /\ current_state' =
                                 [DebitSnapshot(current_state, message)
                                    EXCEPT !.risk_score = decision_result.risk_score]
                            /\ decision_history' = Append(decision_history, decision_result)
                       ELSE /\ current_state' =
                                 [RouteToQueue(current_state, message)
                                    EXCEPT !.risk_score = decision_result.risk_score]
                            /\ decision_history' =
                                 Append(decision_history,
                                        [decision_result EXCEPT !.decision = "QUEUE"])
           ELSE /\ UNCHANGED ledger
                /\ decision_history' = Append(decision_history, decision_result)
                /\ current_state' =
                     [ (IF use_unified_ledger THEN current_state
                        ELSE IF decision_result.decision = "SETTLE"
                        THEN DebitSnapshot(current_state, message)
                        ELSE IF decision_result.decision = "QUEUE"
                        THEN QueueInstruction(current_state, message)
                        ELSE current_state)
                       EXCEPT !.risk_score = decision_result.risk_score ]
    /\ UNCHANGED <<initial_balance, calls, agent, use_unified_ledger, state>>

Next ==
    \/ \E message \in Messages(Len(decision_history) + 1),
          generated \in Projections({TimeBuckets}) : StartMessage(message, generated)
    \/ GraphStep
    \/ Complete

Spec == Init /\ [][Next]_vars

----------------------------------------------------------------------------
(* Properties of the Unified Ledger *)

RECURSIVE LoggedAmount(_, _, _)
LoggedAmount(log, type, account) ==
    IF log = << >> THEN 0
    ELSE (IF Head(log).type = type /\ Head(log).owner = account THEN Head(log).amount ELSE 0)
         + LoggedAmount(Tail(log), type, account)

\* cumulative minted amount of an account, the initial deposit included
MintedTo(account) ==
    (IF account = bank_id THEN initial_balance ELSE 0)
    + LoggedAmount(ledger.instruction_log, "MINT", account)

\* cumulative amount of the burn_deposit calls on an account
BurnedFrom(account) == LoggedAmount(ledger.instruction_log, "BURN", account)

RECURSIVE SumOver(_, _)
SumOver(S, f) ==
    IF S = {} THEN 0
    ELSE LET x == CHOOSE y \in S : TRUE IN f[x] + SumOver(S \ {x}, f)

\* total of all ACTIVE deposit amounts across all accounts
TotalActive(L) ==
    SumOver(Accounts, [a \in Accounts |-> get_total_tokenized_balance(L, a)])

\* this step appended one settlement to the settlement record
SettlementRecorded == Len(ledger'.settlements) = Len(ledger.settlements) + 1

LastSettlement(L) == L.settlements[Len(L.settlements)]

\* C1: at every point, for every account, the sum of the amounts of its ACTIVE
\* deposits equals its cumulative minted amount (initial deposit included)
\* minus its cumulative burned amount.
C1_Conservation ==
    \A a \in Accounts :
        get_total_tokenized_balance(ledger, a) = MintedTo(a) - BurnedFrom(a)

\* C2: every execute_atomic_settlement call, EXECUTED or FAILED, leaves the
\* total of all ACTIVE deposit amounts across all accounts unchanged.
C2_SettlementConservesValue ==
    [][SettlementRecorded => TotalActive(ledger') = TotalActive(ledger)]_vars

\* C3: in every reachable ledger state the cached balance of each account in
\* ledger_state equals the sum of that account's ACTIVE deposits.
C3_CacheEqualsActive ==
    \A a \in DOMAIN ledger.ledger_state :
        ledger.ledger_state[a] = get_total_tokenized_balance(ledger, a)

\* C4: burn(owner, amount) with amount greater than the owner's ACTIVE total
\* never succeeds: every deposit, the cached balances and the instruction log
\* are left unchanged.
C4_BurnBeyondActiveFails ==
    [][\A owner \in Accounts, amount \in Amounts :
          (BurnDeposit(owner, amount)
             /\ amount > get_total_tokenized_balance(ledger, owner))
          => /\ ledger'.tokenized_deposits = ledger.tokenized_deposits
             /\ ledger'.ledger_state = ledger.ledger_state
             /\ ledger'.instruction_log = ledger.instruction_log]_vars

\* C5: with two execute_atomic_settlement calls on the same account interleaved
\* at the granularity of their steps, the total amount burned from the account
\* never exceeds the total amount minted to it.
C5_NoDoubleSpendInterleaved ==
    \A a \in Accounts : BurnedFrom(a) <= MintedTo(a)

\* C10: a settlement that finds the from account's ACTIVE total smaller than
\* the amount ends FAILED with a failure reason and is appended to the record;
\* every settlement that ends FAILED changes no deposit, no cached balance and
\* logs nothing.
C10_FailedSettlementHasNoEffect ==
    [][SettlementRecorded =>
        LET s == LastSettlement(ledger')
        IN  /\ ledger'.settlements = Append(ledger.settlements, s)
            /\ get_total_tokenized_balance(ledger, s.from_account) < s.amount
                 => s.status = "FAILED" /\ s.failure_reason # None
            /\ s.status = "FAILED"
                 => /\ ledger'.tokenized_deposits = ledger.tokenized_deposits
                    /\ ledger'.ledger_state = ledger.ledger_state
                    /\ ledger'.instruction_log = ledger.instruction_log]_vars

\* a settlement on an insufficient balance has been recorded
C10_Witness ==
    \E i \in 1..Len(ledger.settlements) :
        /\ ledger.settlements[i].status = "FAILED"
        /\ ledger.settlements[i].failure_reason # None

----------------------------------------------------------------------------
(* Properties of the Decision Engine *)

Decisions == {"SETTLE", "QUEUE", "REJECT", "REQUIRE_HUMAN_OVERRIDE"}

\* process_message has returned: the result is final_state["decision_result"]
Returned == pc = "END"

ReturnedDecision == state.decision_result.decision

\* C6: for any instruction whose amount exceeds max_allowable_variance, and any
\* snapshot, the decision of process is REJECT, whatever the priority tier or
\* the sovereign flag.
C6_GuardrailPrecedence ==
    (Returned /\ state.new_message.amount > agent.circuit_breaker.max_allowable_variance)
        => ReturnedDecision = "REJECT"

\* an URGENT sovereign instruction above the limit, within every other limit, was rejected
C6_Witness ==
    /\ Returned
    /\ state.new_message.amount > agent.circuit_breaker.max_allowable_variance
    /\ state.new_message.priority = "URGENT" /\ state.new_message.is_sovereign
    /\ 2 * state.new_message.amount <= agent.circuit_breaker.total_liquidity_pool
    /\ ReturnedDecision = "REJECT"

\* C7 as stated: for any instruction whose amount is greater than
\* 0.8 x max_allowable_variance, and any snapshot, the decision of process is
\* REQUIRE_HUMAN_OVERRIDE.
C7_OverridePrecedence ==
    (Returned /\ 10 * state.new_message.amount
                   > 8 * agent.circuit_breaker.max_allowable_variance)
        => ReturnedDecision = "REQUIRE_HUMAN_OVERRIDE"

\* the circuit breaker check allows the message on the snapshot it was given
AllowedByLimits ==
    LET message == state.new_message
        cb == agent.circuit_breaker
    IN  /\ message.amount <= cb.max_allowable_variance
        /\ cb.total_liquidity_pool > 0
             => 10 * message.amount <= cb.max_liquidity_percentage * cb.total_liquidity_pool
        /\ \/ message.amount <= current_state.current_balance
           \/ message.priority = "URGENT"
           \/ message.is_sovereign

\* C7 amended: for any instruction whose amount is greater than
\* 0.8 x max_allowable_variance and which the Circuit Breaker check allows, the
\* decision of process is REQUIRE_HUMAN_OVERRIDE; when the check blocks it, the
\* decision is REJECT.
C7_OverrideWhenAllowed ==
    (Returned /\ 10 * state.new_message.amount
                   > 8 * agent.circuit_breaker.max_allowable_variance)
        => ReturnedDecision =
              (IF AllowedByLimits THEN "REQUIRE_HUMAN_OVERRIDE" ELSE "REJECT")

\* an URGENT instruction the matrix would settle, above 80% of the limit and not
\* above 40% of the pool, got REQUIRE_HUMAN_OVERRIDE
C7_Witness ==
    /\ Returned
    /\ 10 * state.new_message.amount > 8 * agent.circuit_breaker.max_allowable_variance
    /\ 10 * state.new_message.amount <= 4 * agent.circuit_breaker.total_liquidity_pool
    /\ AllowedByLimits
    /\ state.new_message.priority = "URGENT"
    /\ ReturnedDecision = "REQUIRE_HUMAN_OVERRIDE"

C9_BalanceNeverNegative ==
    pc = "idle" => current_state.current_balance >= 0

----------------------------------------------------------------------------
(* Settlements on a sufficient balance *)

\* the last deposit of the ledger is a new ACTIVE deposit of the amount for the account
ReceivedOneDeposit(L, M, account, amount) ==
    /\ Len(M.tokenized_deposits) > Len(L.tokenized_deposits)
    /\ M.tokenized_deposits[Len(M.tokenized_deposits)] = TokenizedDeposit(account, amount)
    /\ get_total_tokenized_balance(M, account)
         = get_total_tokenized_balance(L, account) + amount

\* C11: when the from account's ACTIVE total is at least the amount,
\* execute_atomic_settlement ends EXECUTED, the from account's ACTIVE total
\* decreases by exactly the amount and the to account receives exactly one new
\* ACTIVE deposit of the amount.
C11_SufficientSettlementMovesAmount ==
    [][\A from_account, to_account \in Accounts, amount \in Amounts :
          (/\ from_account # to_account
           /\ ExecuteAtomicSettlement(from_account, to_account, amount)
           /\ get_total_tokenized_balance(ledger, from_account) >= amount)
          => /\ LastSettlement(ledger').status = "EXECUTED"
             /\ get_total_tokenized_balance(ledger', from_account)
                  = get_total_tokenized_balance(ledger, from_account) - amount
             /\ ReceivedOneDeposit(ledger, ledger', to_account, amount)]_vars

----------------------------------------------------------------------------
(* run_simulation_scenario in atomic-settlement mode on a longer batch: the *)
(* ledger is debited by every EXECUTED settlement until it runs short       *)

MaxBatch == 6                 \* messages of the batch
BatchAmounts == {1, 2}

BatchMessages(msg_id) ==
    { ISO20022Message(msg_id, amount, priority, FALSE) :
        amount \in BatchAmounts, priority \in InputPriorities }

InitAtomic ==
    /\ initial_balance \in 1..MaxInitial
    /\ Constructed(MaxVariance)
    /\ use_unified_ledger = TRUE
    /\ pc = "idle"

\* lines 323-329, as StartMessage
StartBatchMessage(message, generated) ==
    /\ pc = "idle"
    /\ Len(decision_history) < MaxBatch
    /\ current_state' =
          IF DOMAIN current_state.incoming_projections = {}
          THEN [current_state EXCEPT !.incoming_projections = generated]
          ELSE current_state
    /\ state' = initial_state(message, current_state')
    /\ pc' = "check_guardrails"
    /\ UNCHANGED <<ledgerVars, agent, use_unified_ledger, decision_history>>

NextAtomic ==
    \/ \E message \in BatchMessages(Len(decision_history) + 1),
          generated \in Projections({TimeBuckets}) : StartBatchMessage(message, generated)
    \/ GraphStep
    \/ Complete

SpecAtomic == InitAtomic /\ [][NextAtomic]_vars

LastDecision(history) == history[Len(history)]

\* C12: in atomic-settlement mode, when the ledger reports FAILED for an
\* instruction the decision matrix chose to SETTLE, the instruction's final
\* decision is QUEUE, the instruction is in the pending queue, the snapshot
\* balance is not debited, and a FAILED settlement record referencing the
\* instruction exists.
C12_LedgerFailureDowngradesToQueue ==
    [][(/\ pc = "END" /\ pc' = "idle"
        /\ use_unified_ledger
        /\ state.decision_result.decision = "SETTLE"
        /\ SettlementRecorded
        /\ LastSettlement(ledger').status # "EXECUTED")
       => /\ Len(decision_history') = Len(decision_history) + 1
          /\ LastDecision(decision_history').message_id = state.new_message.msg_id
          /\ LastDecision(decision_history').decision = "QUEUE"
          /\ current_state'.pending_queue
               = Append(current_state.pending_queue, state.new_message)
          /\ current_state'.current_balance = current_state.current_balance
          /\ LastSettlement(ledger').status = "FAILED"
          /\ LastSettlement(ledger').message_id = Some(state.new_message.msg_id)]_vars

\* the ledger has refused a settlement the agent decided, and the driver has
\* recorded the instruction as queued
C12_Witness ==
    /\ pc = "idle"
    /\ use_unified_ledger
    /\ decision_history # << >>
    /\ ledger.settlements # << >>
    /\ LastSettlement(ledger).status = "FAILED"
    /\ LastSettlement(ledger).message_id = Some(LastDecision(decision_history).message_id)
    /\ LastDecision(decision_history).decision = "QUEUE"
    /\ LastDecision(decision_history).liquidity_after # Nothing
    /\ \E i \in 1..Len(current_state.pending_queue) :
          current_state.pending_queue[i].msg_id = LastDecision(decision_history).message_id

----------------------------------------------------------------------------
(* Deficit settlement and plain settlement by process_message *)

\* entry e is among the entries the nodes after cash_manager appended to the
\* decision log of the run (the entries before them are the reasoning steps)
Logged(e) ==
    \E i \in (Len(state.decision_result.reasoning_steps) + 1)..Len(state.decision_log) :
        state.decision_log[i] = e

\* the instruction is URGENT and sovereign, exceeds the balance of the snapshot
\* and does not exceed max_allowable_variance
UrgentSovereignDeficit ==
    /\ state.new_message.priority = "URGENT" /\ state.new_message.is_sovereign
    /\ state.new_message.amount > current_state.current_balance
    /\ state.new_message.amount <= agent.circuit_breaker.max_allowable_variance

\* the decision is SETTLE, a repo of amount - balance was taken, the balance is 0
SettledByRepo ==
    /\ ReturnedDecision = "SETTLE"
    /\ Logged(<<"LIQUIDITY REPO",
                state.new_message.amount - current_state.current_balance>>)
    /\ state.current_balance = 0
    /\ state.decision_result.liquidity_after = Some(0)

\* C13 as stated: for any URGENT and sovereign instruction whose amount exceeds
\* the current balance but not max_allowable_variance, the decision is SETTLE,
\* the settlement performs a repo of amount - balance and the resulting
\* balance is 0.
C13_UrgentSovereignDeficitSettles ==
    (Returned /\ UrgentSovereignDeficit) => SettledByRepo

\* neither limit of the human-override check is exceeded, nor the pool fraction
\* of the circuit breaker check
WithinPoolAndOverrideLimits ==
    LET message == state.new_message
        cb == agent.circuit_breaker
    IN  /\ 10 * message.amount <= 8 * cb.max_allowable_variance
        /\ cb.total_liquidity_pool > 0
             => /\ 10 * message.amount <= 4 * cb.total_liquidity_pool
                /\ 10 * message.amount
                     <= cb.max_liquidity_percentage * cb.total_liquidity_pool

\* C13 amended: for any URGENT and sovereign instruction whose amount exceeds
\* the current balance, is at most 0.8 x max_allowable_variance and, when the
\* pool is known, at most 0.4 x total_pool and at most max_liquidity_percentage
\* x total_pool, the decision is SETTLE, the settlement performs a repo of
\* amount - balance and the resulting balance is 0; above the pool fraction the
\* decision is REJECT, and otherwise above either override limit it is
\* REQUIRE_HUMAN_OVERRIDE.
C13_DeficitSettlesWithinLimits ==
    (Returned /\ UrgentSovereignDeficit)
        => IF WithinPoolAndOverrideLimits THEN SettledByRepo
           ELSE IF AllowedByLimits THEN ReturnedDecision = "REQUIRE_HUMAN_OVERRIDE"
           ELSE ReturnedDecision = "REJECT"

\* an URGENT sovereign instruction above a positive balance was settled by a repo
C13_Witness ==
    /\ Returned
    /\ UrgentSovereignDeficit
    /\ current_state.current_balance > 0
    /\ WithinPoolAndOverrideLimits
    /\ SettledByRepo

\* a NORMAL, non-sovereign instruction within the balance, the balance not below
\* the precautionary buffer, no projected inflow, no guardrail block and no
\* human-override trigger
PlainSettlementCase ==
    LET message == state.new_message
        balance == current_state.current_balance
    IN  /\ message.priority = "NORMAL" /\ ~message.is_sovereign
        /\ message.amount <= balance
        /\ ~BelowPrecautionaryBuffer(agent, balance)
        /\ DOMAIN current_state.incoming_projections = {}
        /\ check_transaction(agent.circuit_breaker, message, balance).is_allowed
        /\ ~should_trigger_human_override(agent.circuit_breaker, message, balance)

\* buffer_ratio = balance / (total_outflow + 1) >= 2 for the instruction of the
\* run and the given queue
BufferRatioAtLeastTwo(balance, queue) ==
    balance >= 2 * (state.new_message.amount + SumAmounts(queue) + 1)

\* C14: for a NORMAL-priority, non-sovereign instruction with amount <= current
\* balance, balance not below the precautionary buffer, no projected inflow,
\* and neither a guardrail block nor a human-override trigger, the decision is
\* SETTLE and the resulting balance is balance - amount, with risk score 0.0
\* (attached to the result, and stored by the state update) when the buffer
\* ratio is >= 2.
C14_PlainSettlement ==
    (Returned /\ PlainSettlementCase)
        => /\ ReturnedDecision = "SETTLE"
           /\ state.current_balance
                = current_state.current_balance - state.new_message.amount
           /\ state.decision_result.liquidity_after = Some(state.current_balance)
           /\ state.pending_queue = current_state.pending_queue
           /\ BufferRatioAtLeastTwo(current_state.current_balance, current_state.pending_queue)
                => state.decision_result.risk_score = 0
           /\ BufferRatioAtLeastTwo(state.current_balance, state.pending_queue)
                => state.risk_score = 0

\* such an instruction was settled out of a balance that leaves a buffer ratio of 2
C14_Witness ==
    /\ Returned
    /\ PlainSettlementCase
    /\ ReturnedDecision = "SETTLE"
    /\ state.current_balance = current_state.current_balance - state.new_message.amount
    /\ BufferRatioAtLeastTwo(state.current_balance, state.pending_queue)
    /\ state.risk_score = 0

----------------------------------------------------------------------------
(* process_message called repeatedly with the same message on the same      *)
(* snapshot by the same agent; decision_history keeps the results returned  *)

MaxRuns == 2     \* calls whose result is kept for comparison

InitTwice == InitProcess

\* process_message has returned; keep its result and call it again with the
\* same arguments
RunAgain ==
    /\ pc = "END"
    /\ Len(decision_history) < MaxRuns
    /\ decision_history' = Append(decision_history, state.decision_result)
    /\ state' = initial_state(state.new_message, current_state)
    /\ pc' = "check_guardrails"
    /\ UNCHANGED <<ledgerVars, agent, current_state, use_unified_ledger>>

NextTwice == GraphStep \/ RunAgain

SpecTwice == InitTwice /\ [][NextTwice]_vars

SameOutcome(r1, r2) ==
    /\ r1.decision = r2.decision
    /\ r1.reasoning_steps = r2.reasoning_steps

----------------------------------------------------------------------------
(* The batch after an invariant violation *)

\* the snapshot balance is negative after a settlement, or the ledger holds an
\* ACTIVE total that differs from minted minus burned
InvariantViolated ==
    \/ current_state.current_balance < 0
    \/ \E a \in Accounts :
          get_total_tokenized_balance(ledger, a) # MintedTo(a) - BurnedFrom(a)

\* C16: if processing an instruction of a batch leaves an invariant violated
\* (snapshot balance negative after settlement, or ledger conservation
\* breached), no later instruction of that batch is processed.
C16_AbortOnInvariantViolation ==
    [][(pc = "idle" /\ InvariantViolated) => pc' = "idle"]_vars

\* the same for the negative balance alone
C16_AbortOnNegativeBalance ==
    [][(pc = "idle" /\ current_state.current_balance < 0) => pc' = "idle"]_vars

----------------------------------------------------------------------------
(* Lifecycle of a settlement *)

SettlementStatus == {"PENDING", "EXECUTED", "FAILED", "REVERTED"}

Terminal == {"EXECUTED", "FAILED"}

\* record r is settlement s in a terminal state
TerminalOf(r, s) ==
    /\ r.status \in Terminal
    /\ r.from_account = s.from_account /\ r.to_account = s.to_account
    /\ r.amount = s.amount /\ r.message_id = s.message_id

\* C17: every Atomic Settlement is created PENDING and moves exactly once to
\* EXECUTED or FAILED before it is recorded; every settlement in the ledger's
\* record is EXECUTED or FAILED, records are only appended and never change
\* afterwards, and the number of recorded settlements always equals
\* executed + failed.
C17_SettlementLifecycle ==
    /\ [](\A c \in DOMAIN calls :
             calls[c].pc # "done" => calls[c].settlement.status = "PENDING")
    /\ [](\A i \in 1..Len(ledger.settlements) :
             ledger.settlements[i].status \in Terminal)
    /\ [](get_ledger_snapshot(ledger).total_settlements
            = get_ledger_snapshot(ledger).successful_settlements
              + get_ledger_snapshot(ledger).failed_settlements)
    /\ [][\/ ledger'.settlements = ledger.settlements
          \/ /\ SettlementRecorded
             /\ SubSeq(ledger'.settlements, 1, Len(ledger.settlements)) = ledger.settlements
             /\ \E c \in DOMAIN calls :
                   /\ calls[c].pc # "done" /\ calls'[c].pc = "done"
                   /\ TerminalOf(LastSettlement(ledger'), calls[c].settlement)]_vars

\* both calls have returned, one settlement recorded EXECUTED and one FAILED
C17_Witness ==
    /\ DOMAIN calls # {}
    /\ \A c \in DOMAIN calls : calls[c].pc = "done"
    /\ get_ledger_snapshot(ledger).successful_settlements = 1
    /\ get_ledger_snapshot(ledger).failed_settlements = 1

----------------------------------------------------------------------------
(* The checks of the circuit breaker and the risk scorer called directly:   *)
(* a breaker as CircuitBreaker.__init__ leaves it (pool 0.0), optionally    *)
(* given a pool, then one call on arbitrary arguments                       *)

\* the arguments of the call and what it returned
Call(message, balance, queue) ==
    [ new_message |-> message, current_balance |-> balance, pending_queue |-> queue,
      returned |-> Nothing, decision_result |-> NoResult ]

InitCalls ==
    /\ initial_balance \in 1..MaxInitial
    /\ ledger = UnifiedLedger(initial_balance)
    /\ \E variance \in 1..MaxVariance :
          agent = [ initial_balance |-> initial_balance,
                    circuit_breaker |-> CircuitBreaker(variance, 0) ]
    /\ current_state = LiquiditySnapshot(initial_balance)
    /\ decision_history = << >>
    /\ calls = << >>
    /\ use_unified_ledger = FALSE
    /\ state \in { Call(message, balance, queue) :
                     message \in Messages(1), balance \in 0..MaxInitial,
                     queue \in {<< >>} \cup { << ISO20022Message(0, amount, "NORMAL", FALSE) >> :
                                                  amount \in Amounts } }
    /\ pc = "idle"

SetTotalLiquidityPool(total_liquidity) ==
    /\ pc = "idle"
    /\ agent.circuit_breaker.total_liquidity_pool = 0
    /\ agent' = [agent EXCEPT !.circuit_breaker.total_liquidity_pool = total_liquidity]
    /\ UNCHANGED <<ledgerVars, current_state, use_unified_ledger, decision_history, pc, state>>

CheckTransaction ==
    /\ pc = "idle"
    /\ state' = [state EXCEPT !.returned =
                    Some(check_transaction(agent.circuit_breaker, state.new_message,
                                           state.current_balance))]
    /\ pc' = "check_transaction"
    /\ UNCHANGED <<ledgerVars, agent, current_state, use_unified_ledger, decision_history>>

ShouldTriggerHumanOverride ==
    /\ pc = "idle"
    /\ state' = [state EXCEPT !.returned =
                    Some(should_trigger_human_override(agent.circuit_breaker,
                                                       state.new_message,
                                                       state.current_balance))]
    /\ pc' = "should_trigger_human_override"
    /\ UNCHANGED <<ledgerVars, agent, current_state, use_unified_ledger, decision_history>>

CalculateRiskScore ==
    /\ pc = "idle"
    /\ state' = [state EXCEPT !.returned =
                    Some(calculate_risk_score(state.current_balance, state.new_message,
                                              state.pending_queue))]
    /\ pc' = "_calculate_risk_score"
    /\ UNCHANGED <<ledgerVars, agent, current_state, use_unified_ledger, decision_history>>

NextCalls ==
    \/ SetTotalLiquidityPool(initial_balance)
    \/ CheckTransaction
    \/ ShouldTriggerHumanOverride
    \/ CalculateRiskScore

SpecCalls == InitCalls /\ [][NextCalls]_vars

\* the three conditions under which the check blocks, as fractions of the limits
BlockedByRule(cb, message, balance) ==
    \/ message.amount > cb.max_allowable_variance
    \/ /\ cb.total_liquidity_pool > 0
       /\ 10 * message.amount > cb.max_liquidity_percentage * cb.total_liquidity_pool
    \/ /\ message.amount > balance
       /\ message.priority # "URGENT" /\ ~message.is_sovereign

\* C18: the Circuit Breaker check returns Blocked exactly when amount >
\* max_absolute_limit, or the pool size is known (> 0) and amount / total_pool >
\* max_pool_fraction, or amount > current_balance and the instruction is neither
\* URGENT nor sovereign; in every other case it returns Allowed, and it changes
\* no state.
C18_CheckBlocksExactly ==
    /\ [](pc = "check_transaction" =>
            LET result == state.returned[1]
            IN  /\ result.is_allowed
                     = ~BlockedByRule(agent.circuit_breaker, state.new_message,
                                      state.current_balance)
                /\ result.is_allowed => result = Allowed
                /\ ~result.is_allowed => result.reason # None)
    /\ [][pc' = "check_transaction" =>
            /\ UNCHANGED <<ledgerVars, agent, current_state, decision_history>>
            /\ state'.new_message = state.new_message
            /\ state'.current_balance = state.current_balance]_vars

\* the check has allowed a sovereign NORMAL instruction above the balance with
\* the pool unknown
C18_Witness ==
    /\ pc = "check_transaction"
    /\ agent.circuit_breaker.total_liquidity_pool = 0
    /\ state.new_message.priority = "NORMAL" /\ state.new_message.is_sovereign
    /\ state.new_message.amount > state.current_balance
    /\ state.returned = Some(Allowed)

----------------------------------------------------------------------------
(* The human override in a batch *)

\* amount > 0.8 x max_absolute_limit, or the pool is known and
\* amount / total_pool > 0.4
OverrideRule ==
    LET message == state.new_message
        cb == agent.circuit_breaker
    IN  \/ 10 * message.amount > 8 * cb.max_allowable_variance
        \/ cb.total_liquidity_pool > 0 /\ 10 * message.amount > 4 * cb.total_liquidity_pool

\* the decision steps 1 to 4 of the matrix reach on the snapshot
DecisionBeforeOverride ==
    LET message == state.new_message
        balance == current_state.current_balance
    IN  Step4(message, balance,
          Step3(message, balance, current_state.incoming_projections,
            Step2(agent, message, balance, Step1(message)))).decision

\* C19: for any instruction the Circuit Breaker check allows, the final decision
\* is REQUIRE_HUMAN_OVERRIDE exactly when amount > 0.8 x max_absolute_limit or
\* (total_pool known and amount / total_pool > 0.4), whatever decision steps
\* (a)-(d) of the matrix reached; when it is REQUIRE_HUMAN_OVERRIDE no
\* settlement is executed and the instruction is not queued.
C19_OverrideExactlyOnTrigger ==
    /\ []((Returned /\ AllowedByLimits)
            => /\ (ReturnedDecision = "REQUIRE_HUMAN_OVERRIDE") = OverrideRule
               /\ ~OverrideRule => ReturnedDecision = DecisionBeforeOverride)
    /\ []((Returned /\ ReturnedDecision = "REQUIRE_HUMAN_OVERRIDE")
            => /\ state.current_balance = current_state.current_balance
               /\ state.total_settled_today = current_state.total_settled_today
               /\ state.pending_queue = current_state.pending_queue
               /\ state.decision_result.liquidity_after = Nothing)
    /\ [][(pc = "END" /\ pc' = "idle" /\ ReturnedDecision = "REQUIRE_HUMAN_OVERRIDE")
            => /\ ledger' = ledger
               /\ current_state'.current_balance = current_state.current_balance
               /\ current_state'.total_settled_today = current_state.total_settled_today
               /\ current_state'.pending_queue = current_state.pending_queue
               /\ LastDecision(decision_history').decision = "REQUIRE_HUMAN_OVERRIDE"]_vars

\* an instruction the matrix would queue, above 40% of the pool and not above
\* 80% of the limit, has been recorded as REQUIRE_HUMAN_OVERRIDE by the driver
C19_Witness ==
    /\ pc = "idle"
    /\ decision_history # << >>
    /\ LastDecision(decision_history).decision = "REQUIRE_HUMAN_OVERRIDE"
    /\ LastDecision(decision_history).message_id = state.new_message.msg_id
    /\ 10 * state.new_message.amount <= 8 * agent.circuit_breaker.max_allowable_variance
    /\ state.new_message.priority = "NORMAL" /\ ~state.new_message.is_sovereign
    /\ LastDecision(decision_history).reasoning_steps[2] = "Opportunity cost: delaying saves"
    /\ current_state.pending_queue = << >>
    /\ current_state.current_balance = initial_balance

----------------------------------------------------------------------------
(* Risk monotonicity *)

total_outflow(message, queue) == message.amount + SumAmounts(queue)

\* buffer_ratio of the first input >= buffer_ratio of the second
RatioAtLeast(b1, m1, q1, b2, m2, q2) ==
    b1 * (total_outflow(m2, q2) + 1) >= b2 * (total_outflow(m1, q1) + 1)

Queues ==
    {<< >>} \cup { << ISO20022Message(0, amount, "NORMAL", FALSE) >> : amount \in Amounts }

\* C20: the risk score is non-increasing in the buffer ratio: for any two inputs
\* (balance, instruction amount, pending queue), if the buffer ratio
\* balance / (total_outflow + 1) of the first is at least that of the second,
\* the score of the first is not higher than the score of the second, the
\* balance == 0 case included.
C20_RiskMonotone ==
    pc = "_calculate_risk_score" =>
        \A b2 \in 0..MaxInitial, m2 \in Messages(1), q2 \in Queues :
            /\ RatioAtLeast(state.current_balance, state.new_message, state.pending_queue,
                            b2, m2, q2)
                 => state.returned[1] <= calculate_risk_score(b2, m2, q2)
            /\ RatioAtLeast(b2, m2, q2,
                            state.current_balance, state.new_message, state.pending_queue)
                 => calculate_risk_score(b2, m2, q2) <= state.returned[1]

\* a score of the middle band was returned; inputs of a lower ratio, balance 0
\* among them, score higher and inputs of a higher ratio score lower
C20_Witness ==
    /\ pc = "_calculate_risk_score"
    /\ state.returned = Some(5)
    /\ \E m2 \in Messages(1), q2 \in Queues : calculate_risk_score(0, m2, q2) = 10
    /\ \E b2 \in 1..MaxInitial, m2 \in Messages(1), q2 \in Queues :
          /\ ~RatioAtLeast(b2, m2, q2,
                           state.current_balance, state.new_message, state.pending_queue)
          /\ calculate_risk_score(b2, m2, q2) = 7
    /\ \E b2 \in 1..MaxInitial, m2 \in Messages(1), q2 \in Queues :
          /\ ~RatioAtLeast(state.current_balance, state.new_message, state.pending_queue,
                           b2, m2, q2)
          /\ calculate_risk_score(b2, m2, q2) = 0

----------------------------------------------------------------------------
(* burn_deposit: the split and the order of consumption *)

\* this step is a call burn_deposit(owner, amount) on a sufficient ACTIVE total
BurnStep(owner, amount) ==
    /\ BurnDeposit(owner, amount)
    /\ amount <= get_total_tokenized_balance(ledger, owner)

\* the ids the call returned
BurnedIds == LastBurned(ledger')

RECURSIVE SumOfTokens(_, _)
SumOfTokens(deps, ids) ==
    IF ids = << >> THEN 0 ELSE deps[Head(ids)].amount + SumOfTokens(deps, Tail(ids))

\* the deposit the call consumed in part, if any: the last one it took, when the
\* deposits it took hold more than the amount
SplitId == BurnedIds[Len(BurnedIds)]

ConsumedInPart(amount) ==
    BurnedIds # << >> /\ SumOfTokens(ledger.tokenized_deposits, BurnedIds) > amount

\* C21: when a burn consumes only part of a deposit, that original deposit ends
\* with status BURNED and exactly one new ACTIVE deposit owned by the same owner
\* is created with amount = original amount - consumed part, so the owner's
\* ACTIVE total decreases by exactly the burned amount.
C21_PartialBurnSplits ==
    [][\A owner \in Accounts, amount \in Amounts :
          (BurnStep(owner, amount) /\ ConsumedInPart(amount))
          => LET before == ledger.tokenized_deposits
                 after == ledger'.tokenized_deposits
             IN  /\ after[SplitId].status = "BURNED"
                 /\ Len(after) = Len(before) + 1
                 /\ after[Len(after)]
                      = TokenizedDeposit(owner, SumOfTokens(before, BurnedIds) - amount)
                 /\ get_total_tokenized_balance(ledger', owner)
                      = get_total_tokenized_balance(ledger, owner) - amount]_vars

\* C22: burn(owner, amount) consumes the owner's ACTIVE deposits in creation
\* order: a deposit is burned or split only if every older ACTIVE deposit of the
\* same owner has been fully burned by this call, consumption stops as soon as
\* the amount is covered, and deposits of other owners are never touched.
C22_BurnIsFIFO ==
    [][\A owner \in Accounts, amount \in Amounts :
          BurnDeposit(owner, amount)
          => LET before == ledger.tokenized_deposits
                 after == ledger'.tokenized_deposits
                 n == Len(BurnedIds)
                 Taken(i) == \E k \in 1..n : BurnedIds[k] = i
             IN  /\ \A k \in 1..n :
                       /\ BurnedIds[k] \in 1..Len(before)
                       /\ IsActiveOf(before[BurnedIds[k]], owner)
                       /\ k < n => after[BurnedIds[k]].status = "BURNED"
                       /\ \A i \in 1..(BurnedIds[k] - 1) :
                             IsActiveOf(before[i], owner)
                               => \E j \in 1..(k - 1) : BurnedIds[j] = i
                 /\ \A j, k \in 1..n : j < k => BurnedIds[j] < BurnedIds[k]
                 /\ n > 0 => SumOfTokens(before, SubSeq(BurnedIds, 1, n - 1)) < amount
                 /\ (\E i \in 1..Len(before) : IsActiveOf(before[i], owner) /\ ~Taken(i))
                       => SumOfTokens(before, BurnedIds) >= amount
                 /\ \A i \in 1..Len(before) : ~Taken(i) => after[i] = before[i]
                 /\ \A i \in 1..Len(after) :
                       after[i].owner # owner => (i <= Len(before) /\ after[i] = before[i])]_vars

\* a burn has taken the older of two deposits of the bank whole, then part of the
\* newer one, next to a deposit of another owner
C22_Witness ==
    /\ Len(ledger.instruction_log) >= 1
    /\ LET entry == ledger.instruction_log[Len(ledger.instruction_log)]
       IN  /\ entry.type = "BURN"
           /\ entry.tokens = << 1, 2 >>
           /\ ledger.tokenized_deposits[1].status = "BURNED"
           /\ ledger.tokenized_deposits[2].status = "ACTIVE"

----------------------------------------------------------------------------
(* A blocked instruction *)

\* what the Circuit Breaker check says of the instruction on the snapshot
BreakerCheck ==
    check_transaction(agent.circuit_breaker, state.new_message,
                      current_state.current_balance)

\* the balance, the queue and the totals of the run are those of the snapshot
RunLeftSnapshotValues ==
    /\ state.current_balance = current_state.current_balance
    /\ state.pending_queue = current_state.pending_queue
    /\ state.total_settled_today = current_state.total_settled_today
    /\ state.total_delayed_today = current_state.total_delayed_today

\* C23: when the Circuit Breaker blocks an instruction, the Decision Result has
\* decision REJECT, risk score 1.0 and a reasoning step carrying the block
\* reason; the decision matrix and SettlementExecution are skipped, StateUpdate
\* still runs, and balance, pending queue and the cumulative settled and delayed
\* totals are left unchanged.
C23_BlockedIsRejectedWithoutEffect ==
    /\ []((Returned /\ ~BreakerCheck.is_allowed)
            => /\ ReturnedDecision = "REJECT"
               /\ state.decision_result.risk_score = 10
               /\ state.decision_result.reasoning_steps
                    = << <<"Circuit breaker blocked transaction", BreakerCheck.reason>> >>
               /\ state.decision_result.liquidity_after = Nothing
               /\ state.results_created = 1
               /\ RunLeftSnapshotValues
               /\ state.risk_score
                    = calculate_risk_score(state.current_balance, state.new_message,
                                           state.pending_queue))
    /\ [][(pc \in Nodes /\ ~BreakerCheck.is_allowed)
            => /\ pc = "check_guardrails" => pc' = "cash_manager"
               /\ pc = "cash_manager" => (pc' = "update_state" /\ state' = state)
               /\ pc # "execute_settlement"
               /\ pc = "update_state" => pc' = "END"]_vars

\* an instruction above the pool fraction was rejected, and the state update has
\* stored a score other than the one of the rejection
C23_Witness ==
    /\ Returned
    /\ ~BreakerCheck.is_allowed
    /\ BreakerCheck.reason = "exceeds percentage of total liquidity"
    /\ ReturnedDecision = "REJECT"
    /\ RunLeftSnapshotValues
    /\ state.risk_score # 10

----------------------------------------------------------------------------
(* What a processed instruction does to the Liquidity Snapshot *)

\* the driver takes the result of process_message and updates the snapshot
DriverStep == pc = "END" /\ pc' = "idle" /\ state.decision_result # NoResult

\* the balance the settlement of an amount leaves
SettledBalance(balance, amount) ==
    IF amount <= balance THEN balance - amount ELSE 0

\* C24: when SettlementExecution runs in non-atomic mode, the new balance is
\* balance - amount if amount <= balance, and otherwise 0 after an implicit repo
\* of size amount - balance that is recorded in the reasoning trail; the
\* cumulative settled total increases by exactly the amount, and the pending
\* queue and the delayed total are unchanged.
C24_StandardSettlementDebits ==
    [][ ~use_unified_ledger =>
          LET message == state.new_message
              amount  == message.amount
          IN  /\ pc = "execute_settlement"
                   => /\ state'.current_balance
                           = SettledBalance(state.current_balance, amount)
                      /\ state'.total_settled_today = state.total_settled_today + amount
                      /\ state'.pending_queue = state.pending_queue
                      /\ state'.total_delayed_today = state.total_delayed_today
              /\ (DriverStep /\ ReturnedDecision = "SETTLE")
                   => /\ current_state'.current_balance
                           = SettledBalance(current_state.current_balance, amount)
                      /\ amount > current_state.current_balance
                           => Logged(<<"LIQUIDITY REPO",
                                       amount - current_state.current_balance>>)
                      /\ current_state'.total_settled_today
                           = current_state.total_settled_today + amount
                      /\ current_state'.pending_queue = current_state.pending_queue
                      /\ current_state'.total_delayed_today
                           = current_state.total_delayed_today ]_vars

\* C25: whenever the final decision for an instruction is QUEUE, in standard
\* mode and in atomic-settlement mode alike, the instruction is appended at the
\* end of the snapshot's pending queue (earlier entries keep their order) and
\* the cumulative delayed total increases by exactly its amount; for every other
\* final decision the queue and the delayed total are unchanged.
C25_QueueDecisionQueuesInstruction ==
    [][ /\ pc = "update_state"
          => IF ReturnedDecision = "QUEUE"
             THEN /\ state'.pending_queue = Append(state.pending_queue, state.new_message)
                  /\ state'.total_delayed_today
                       = state.total_delayed_today + state.new_message.amount
             ELSE /\ state'.pending_queue = state.pending_queue
                  /\ state'.total_delayed_today = state.total_delayed_today
        /\ DriverStep
          => IF LastDecision(decision_history').decision = "QUEUE"
             THEN /\ current_state'.pending_queue
                       = Append(current_state.pending_queue, state.new_message)
                  /\ current_state'.total_delayed_today
                       = current_state.total_delayed_today + state.new_message.amount
             ELSE /\ current_state'.pending_queue = current_state.pending_queue
                  /\ current_state'.total_delayed_today
                       = current_state.total_delayed_today ]_vars

----------------------------------------------------------------------------
(* The opportunity-cost check of the decision matrix *)

\* the reasoning steps of the returned result contain step s
HasStep(s) ==
    \E i \in 1..Len(state.decision_result.reasoning_steps) :
        state.decision_result.reasoning_steps[i] = s

\* the tentative decision after the priority and threshold checks is QUEUE and
\* the amount is within the balance
OpportunityCheckEntered ==
    /\ state.new_message.priority # "URGENT" /\ ~state.new_message.is_sovereign
    /\ state.new_message.amount <= current_state.current_balance

\* there is a projection, and the one of the earliest time bucket is strictly
\* greater than the amount of the instruction
EarliestInflowExceeds ==
    \E t \in DOMAIN current_state.incoming_projections :
        /\ \A u \in DOMAIN current_state.incoming_projections : t <= u
        /\ current_state.incoming_projections[t] > state.new_message.amount

\* C26: in the opportunity-cost check, entered only when the tentative decision
\* is QUEUE and amount <= current balance, the tentative decision stays QUEUE
\* exactly when the earliest projected inflow exists and is strictly greater
\* than the instruction amount; otherwise (no projection, or earliest inflow <=
\* amount) it flips to SETTLE. Only the earliest time bucket is inspected.
C26_OpportunityCheckUsesEarliestInflow ==
    (Returned /\ ReturnedDecision # "REJECT")
        => LET kept    == HasStep("Opportunity cost: delaying saves")
               flipped == HasStep("Opportunity cost: no significant savings")
           IN  /\ (kept \/ flipped) <=> OpportunityCheckEntered
               /\ ~(kept /\ flipped)
               /\ OpportunityCheckEntered
                    => /\ kept <=> EarliestInflowExceeds
                       /\ ReturnedDecision # "REQUIRE_HUMAN_OVERRIDE"
                            => ReturnedDecision = (IF EarliestInflowExceeds
                                                   THEN "QUEUE" ELSE "SETTLE")

\* two time buckets: the earliest inflow does not exceed the amount, the later
\* one does, and the instruction was settled
C26_Witness ==
    /\ Returned
    /\ OpportunityCheckEntered
    /\ DOMAIN current_state.incoming_projections = TimeBuckets
    /\ current_state.incoming_projections[15] <= state.new_message.amount
    /\ current_state.incoming_projections[30] > state.new_message.amount
    /\ ReturnedDecision = "SETTLE"
    /\ HasStep("Opportunity cost: no significant savings")

----------------------------------------------------------------------------
(* The Decision Result after its creation *)

\* C27: a Decision Result carries a balance-after value exactly when its final
\* decision is SETTLE: results whose final decision is QUEUE, REJECT or
\* REQUIRE_HUMAN_OVERRIDE, including results downgraded to QUEUE after a ledger
\* failure, have no balance-after value.
C27_BalanceAfterIffSettle ==
    \A i \in 1..Len(decision_history) :
        (decision_history[i].liquidity_after # Nothing)
            <=> decision_history[i].decision = "SETTLE"

\* C28: a Decision Result is created exactly once per instruction and is
\* immutable afterwards: once created, its decision and its other fields are
\* never changed by later stages or by the caller, and it is never removed from
\* the audit history.
C28_ResultImmutable ==
    [][ /\ (pc \in Nodes /\ state.decision_result # NoResult)
           => /\ state'.decision_result = state.decision_result
              /\ state'.results_created = state.results_created
        /\ (pc = "END") => state.results_created = 1
        /\ DriverStep
           => decision_history' = Append(decision_history, state.decision_result)
        /\ \A i \in 1..Len(decision_history) :
              /\ i <= Len(decision_history')
              /\ decision_history'[i] = decision_history[i] ]_vars

----------------------------------------------------------------------------
(* The risk score as a step table *)

\* balance / (amount + sum of queue amounts + 1) >= tenths / 10
BufferRatioAtLeast(tenths) ==
    10 * state.current_balance
        >= tenths * (state.new_message.amount + SumAmounts(state.pending_queue) + 1)

\* the step table, scores in tenths
StepTable ==
    IF BufferRatioAtLeast(20) THEN 0
    ELSE IF BufferRatioAtLeast(10) THEN 2
    ELSE IF BufferRatioAtLeast(5) THEN 5
    ELSE IF BufferRatioAtLeast(2) THEN 7
    ELSE 10

\* C29: score(balance, amount, queue) equals the fixed step table applied to
\* buffer_ratio = balance / (amount + sum of queue amounts + 1): 0.0 if ratio >=
\* 2.0, 0.2 if >= 1.0, 0.5 if >= 0.5, 0.7 if >= 0.2, else 1.0, and 1.0 whenever
\* balance is 0; the result is always one of these five values and therefore in
\* [0,1].
C29_ScoreIsStepTable ==
    pc = "_calculate_risk_score"
        => /\ state.returned[1] = StepTable
           /\ state.current_balance = 0 => state.returned[1] = 10
           /\ state.returned[1] \in {0, 2, 5, 7, 10}

\* a buffer ratio of exactly 0.5 scored 0.5
C29_Witness ==
    /\ pc = "_calculate_risk_score"
    /\ 2 * state.current_balance
         = state.new_message.amount + SumAmounts(state.pending_queue) + 1
    /\ state.returned = Some(5)

----------------------------------------------------------------------------
(* The risk score of the snapshot and the one of the result *)

\* C30: after each processed instruction the risk score stored in the Liquidity
\* Snapshot is the score recomputed from the post-update balance and
\* post-update pending queue, while the score attached to the Decision Result is
\* the one computed from the pre-decision balance and queue.
C30_SnapshotScoreIsRecomputed ==
    [][ /\ pc = "update_state"
          => state'.risk_score
               = calculate_risk_score(state'.current_balance, state.new_message,
                                      state'.pending_queue)
        /\ DriverStep
          => /\ current_state'.risk_score
                  = calculate_risk_score(current_state'.current_balance,
                                         state.new_message,
                                         current_state'.pending_queue)
             /\ ReturnedDecision # "REJECT"
                  => LastDecision(decision_history').risk_score
                       = calculate_risk_score(current_state.current_balance,
                                              state.new_message,
                                              current_state.pending_queue) ]_vars

----------------------------------------------------------------------------
(* The order of the stages *)

\* the position of a stage in the fixed order
StageRank(node) ==
    CASE node = "check_guardrails"   -> 1
      [] node = "cash_manager"       -> 2
      [] node = "execute_settlement" -> 3
      [] node = "update_state"       -> 4
      [] node = "END"                -> 5

\* C31: for every instruction the stages run in the fixed order GuardrailCheck,
\* DecisionMatrix, optional SettlementExecution, StateUpdate, terminal:
\* SettlementExecution is entered if and only if the decision after the matrix
\* is SETTLE, and StateUpdate runs exactly once, as the last stage, for every
\* decision.
C31_StagesInFixedOrder ==
    /\ [][ /\ StageRank(pc') > StageRank(pc)
           /\ pc = "check_guardrails" => pc' = "cash_manager"
           /\ pc = "cash_manager"
                => /\ state'.decision_result # NoResult
                   /\ (pc' = "execute_settlement")
                        <=> state'.decision_result.decision = "SETTLE"
                   /\ pc' \in {"execute_settlement", "update_state"}
           /\ pc' = "execute_settlement" => pc = "cash_manager"
           /\ pc = "execute_settlement" => pc' = "update_state"
           /\ (pc' = "END") <=> (pc = "update_state") ]_vars
    /\ <>(pc = "END")

\* the run of a settled instruction stands in StateUpdate, after
\* SettlementExecution has debited the balance
C31_Witness ==
    /\ pc = "update_state"
    /\ state.decision_result.decision = "SETTLE"
    /\ state.decision_result.liquidity_after # Nothing
    /\ state.total_settled_today = current_state.total_settled_today + state.new_message.amount

----------------------------------------------------------------------------
(* The life of a Tokenized Deposit *)

\* the deposits created by the step
NewDeposits ==
    (Len(ledger.tokenized_deposits) + 1)..Len(ledger'.tokenized_deposits)

\* the step burned from an account: its log gained a BURN entry of that owner
BurnLogged(i) ==
    /\ i > Len(ledger.instruction_log)
    /\ i <= Len(ledger'.instruction_log)
    /\ ledger'.instruction_log[i].type = "BURN"

\* the deposit the burn logged at i took last, owned by the given account: the
\* one a remainder is split from
SplitFrom(i, owner) ==
    LET ids == ledger'.instruction_log[i].tokens
    IN  /\ ids # << >>
        /\ ids[Len(ids)] <= Len(ledger.tokenized_deposits)
        /\ ledger.tokenized_deposits[ids[Len(ids)]].owner = owner

\* C32: over any sequence of ledger operations a Tokenized Deposit's owner never
\* changes and its status only moves from ACTIVE to BURNED, never back; a
\* deposit created by a partial burn has the same owner as the deposit it was
\* split from.
C32_DepositOwnerAndStatusMonotone ==
    [][ /\ \A t \in 1..Len(ledger.tokenized_deposits) :
              /\ t <= Len(ledger'.tokenized_deposits)
              /\ ledger'.tokenized_deposits[t].owner = ledger.tokenized_deposits[t].owner
              /\ ledger.tokenized_deposits[t].status \in {"ACTIVE", "BURNED"}
              /\ ledger.tokenized_deposits[t].status = "BURNED"
                   => ledger'.tokenized_deposits[t].status = "BURNED"
              /\ ledger'.tokenized_deposits[t].status \in {"ACTIVE", "BURNED"}
        /\ \A owner \in Accounts, amount \in Amounts :
              BurnDeposit(owner, amount)
                 => \A n \in NewDeposits :
                       /\ ledger'.tokenized_deposits[n].owner = owner
                       /\ \E i \in 1..Len(ledger'.instruction_log) :
                             /\ BurnLogged(i)
                             /\ SplitFrom(i, ledger'.tokenized_deposits[n].owner)
        /\ \A owner \in Accounts, to_account \in Accounts, amount \in Amounts :
              ExecuteAtomicSettlement(owner, to_account, amount)
                 => \A n \in NewDeposits :
                       \/ /\ n = Len(ledger'.tokenized_deposits)
                          /\ ledger'.tokenized_deposits[n].owner = to_account
                       \/ /\ ledger'.tokenized_deposits[n].owner = owner
                          /\ \E i \in 1..Len(ledger'.instruction_log) :
                                /\ BurnLogged(i)
                                /\ SplitFrom(i, owner) ]_vars

\* a partial burn was done on a ledger that holds a BURNED deposit: the burned
\* one and the remainder deposit sit side by side
C32_Witness ==
    /\ Len(ledger.instruction_log) = 2
    /\ ledger.instruction_log[1].type = "BURN"
    /\ ledger.instruction_log[2].type = "BURN"
    /\ \E t \in 1..Len(ledger.tokenized_deposits) :
          ledger.tokenized_deposits[t].status = "BURNED"
    /\ Len(ledger.tokenized_deposits) >= 2
    /\ \A t \in 1..Len(ledger.tokenized_deposits) :
          ledger.tokenized_deposits[t].owner = bank_id

----------------------------------------------------------------------------
(* What the liquidity-threshold step leaves to decide *)

\* the decision of the matrix before the override check, written without the
\* precautionary buffer: URGENT or sovereign is settled; any other instruction
\* within the balance is queued when the earliest inflow exceeds it and settled
\* otherwise
DecisionWithoutBuffer ==
    IF state.new_message.priority = "URGENT" \/ state.new_message.is_sovereign
    THEN "SETTLE"
    ELSE IF EarliestInflowExceeds THEN "QUEUE" ELSE "SETTLE"

\* C33: the liquidity-threshold step of the decision matrix never changes the
\* decision: for every instruction and snapshot, the tentative decision after
\* the precautionary-buffer check equals the tentative decision after the
\* priority check, so the final decision is the same whether or not the balance
\* is below the precautionary buffer.
C33_ThresholdStepKeepsDecision ==
    (Returned /\ ReturnedDecision # "REJECT")
        => /\ Step2(agent, state.new_message, current_state.current_balance,
                    Step1(state.new_message)).decision
                = Step1(state.new_message).decision
           /\ HasStep("Non-urgent payment queued")
                => state.decision_result.reasoning_steps[1]
                     = "Priority check: standard processing"
           /\ HasStep("Liquidity threshold: conservative mode")
                <=> BelowPrecautionaryBuffer(agent, current_state.current_balance)
           /\ ReturnedDecision # "REQUIRE_HUMAN_OVERRIDE"
                => ReturnedDecision = DecisionWithoutBuffer

\* below the precautionary buffer a non-urgent instruction was queued by the
\* threshold step and settled all the same
C33_Witness ==
    /\ Returned
    /\ BelowPrecautionaryBuffer(agent, current_state.current_balance)
    /\ ReturnedDecision = "SETTLE"
    /\ HasStep("Non-urgent payment queued")
    /\ HasStep("Opportunity cost: no significant savings")

----------------------------------------------------------------------------
(* Priority instructions and the implicit repo *)

UrgentOrSovereign ==
    state.new_message.priority = "URGENT" \/ state.new_message.is_sovereign

\* C34: an instruction that is URGENT or sovereign is never given the decision
\* QUEUE by the Decision Engine: for every snapshot its decision is SETTLE,
\* REJECT or REQUIRE_HUMAN_OVERRIDE.
C34_PriorityNeverQueued ==
    (pc \in {"execute_settlement", "update_state", "END"} /\ UrgentOrSovereign)
        => /\ state.decision_result # NoResult
           /\ state.decision_result.decision
                \in {"SETTLE", "REJECT", "REQUIRE_HUMAN_OVERRIDE"}
           /\ state.pending_queue = current_state.pending_queue
           /\ state.total_delayed_today = current_state.total_delayed_today

\* a sovereign instruction of NORMAL priority above the balance, the balance
\* below the precautionary buffer and an inflow above the amount projected, was
\* settled
C34_Witness ==
    /\ Returned
    /\ state.new_message.priority = "NORMAL" /\ state.new_message.is_sovereign
    /\ state.new_message.amount > current_state.current_balance
    /\ BelowPrecautionaryBuffer(agent, current_state.current_balance)
    /\ EarliestInflowExceeds
    /\ ReturnedDecision = "SETTLE"

\* C35: an implicit repo is only ever performed for an URGENT or sovereign
\* instruction: whenever SettlementExecution runs with amount > current balance
\* the instruction is URGENT or sovereign, and the feasibility step never
\* downgrades a tentative SETTLE to QUEUE, because a non-urgent non-sovereign
\* instruction with amount > balance is already rejected by the guardrail.
C35_RepoOnlyForPriority ==
    /\ (pc = "execute_settlement" /\ state.new_message.amount > state.current_balance)
          => UrgentOrSovereign
    /\ (Returned /\ ReturnedDecision # "REJECT")
          => /\ HasStep("Insufficient balance for immediate settlement")
                  => /\ HasStep("Triggering repo request")
                     /\ UrgentOrSovereign
                     /\ ReturnedDecision \in {"SETTLE", "REQUIRE_HUMAN_OVERRIDE"}
             /\ Logged(<<"LIQUIDITY REPO",
                         state.new_message.amount - current_state.current_balance>>)
                  => UrgentOrSovereign
    /\ (Returned /\ ~UrgentOrSovereign
                 /\ state.new_message.amount > current_state.current_balance)
          => ReturnedDecision = "REJECT"

\* a repo was taken for a sovereign instruction of NORMAL priority
C35_Witness ==
    /\ Returned
    /\ state.new_message.priority = "NORMAL" /\ state.new_message.is_sovereign
    /\ current_state.current_balance > 0
    /\ ReturnedDecision = "SETTLE"
    /\ HasStep("Triggering repo request")
    /\ Logged(<<"LIQUIDITY REPO",
                state.new_message.amount - current_state.current_balance>>)
    /\ state.current_balance = 0

----------------------------------------------------------------------------
(* The pending queue over a batch *)

\* queue q is an initial part of queue r
IsPrefix(q, r) ==
    /\ Len(q) <= Len(r)
    /\ \A i \in 1..Len(q) : r[i] = q[i]

\* C36: over any sequence of processed instructions the pending queue never
\* shrinks and its existing entries are never reordered: no operation of the
\* engine or of the batch driver removes or re-processes a queued instruction,
\* so a queued instruction is never settled later.
C36_QueueOnlyGrows ==
    [][ /\ IsPrefix(current_state.pending_queue, current_state'.pending_queue)
        /\ (pc \in Nodes) => IsPrefix(state.pending_queue, state'.pending_queue)
        /\ (pc = "idle" /\ pc' = "check_guardrails")
              => \A i \in 1..Len(current_state.pending_queue) :
                    current_state.pending_queue[i].msg_id # state'.new_message.msg_id
        /\ \A i \in 1..Len(current_state.pending_queue) :
              \A k \in 1..Len(decision_history') :
                 decision_history'[k].message_id = current_state.pending_queue[i].msg_id
                    => /\ k <= Len(decision_history)
                       /\ decision_history'[k] = decision_history[k] ]_vars

\* two instructions were queued one after the other and a third one settled:
\* the queue holds the two in the order of their arrival
C36_Witness ==
    /\ pc = "idle"
    /\ Len(decision_history) = 3
    /\ decision_history[1].decision = "QUEUE"
    /\ decision_history[2].decision = "QUEUE"
    /\ decision_history[3].decision = "SETTLE"
    /\ Len(current_state.pending_queue) = 2
    /\ current_state.pending_queue[1].msg_id = 1
    /\ current_state.pending_queue[2].msg_id = 2
    /\ current_state.total_settled_today > 0

----------------------------------------------------------------------------
(* process_message and the snapshot it is given *)

----------------------------------------------------------------------------
(* The snapshot balance and the ledger in atomic-settlement mode *)

\* C38: in atomic-settlement mode, starting from a reset system where snapshot
\* balance and ledger are initialised with the same amount, after any sequence
\* of processed instructions the snapshot's current balance equals the total of
\* the bank account's ACTIVE tokenized deposits on the Unified Ledger.
C38_SnapshotEqualsLedger ==
    (use_unified_ledger /\ pc = "idle")
        => current_state.current_balance = get_total_tokenized_balance(ledger, bank_id)

====
